---- MODULE Spec2Model ----
(***************************************************************************)
(* Model of prom_exporter.py: the configuration load, the per-item setup   *)
(* and the scheduling loop of main(), and run_ext_script as it is executed *)
(* by the worker threads, over the prometheus_client registry and the      *)
(* module-level list prom_metrics_list.                                    *)
(*                                                                         *)
(* Spec     main(): parse_config_file, generate_params_dict per item, the  *)
(*          while-True loop (schedule.run_pending, job_queue.get, thread   *)
(*          start, time.sleep).                                            *)
(* SpecRun  run_ext_script in up to MaxThreads threads, started from the   *)
(*          state main() leaves after setting up one job; the threads      *)
(*          interleave at every access to shared state.                    *)
(* SpecSeq  from the same state, up to MaxRuns runs of run_ext_script,     *)
(*          each ending before the next starts.                            *)
(* SpecLate main() with sleeps that may overrun by up to MaxLate seconds.  *)
(* SpecLoop main() with the worker threads it starts: the call of          *)
(*          call of item_func with item_kwargs by job_func, its return.    *)
(***************************************************************************)
EXTENDS Integers, Sequences, FiniteSets, TLC

VARIABLES
    config,             \* the JSON document read by parse_config_file
    main_list,          \* main(): the list of items returned by parse_config_folder
    mainpc,             \* position of the main thread in main()
    setup_i,            \* main(): index of the item the for loop is at
    jobs,               \* the jobs registered in schedule's default scheduler
    job_queue,          \* job_queue (queue.Queue), a FIFO of item indexes
    now,                \* the wall clock, in seconds
    started,            \* per item, the number of worker threads started for it
    labels_dict,        \* per item, the dict item["labels"] (shared by all its runs)
    labels_list,        \* per item, param_dict["labels_list"]
    gauges,             \* the Gauge families of the prometheus registry, by name
    counters,           \* the Counter families of the prometheus registry, by metric
    prom_metrics_list,  \* the module-level list of Gauge objects (by name)
    threads,            \* the worker threads running run_ext_script
    item_kwargs,        \* main(): the local item_kwargs, the item it holds (0: unbound)
    born,               \* per item, threads started for it that have not called item_func yet
    running             \* per item, threads inside run_ext_script with the item's params

workvars == <<item_kwargs, born, running>>
mainvars == <<config, main_list, mainpc, setup_i, jobs, job_queue, now, started,
              item_kwargs, born, running>>
regvars == <<labels_dict, labels_list, gauges, counters, prom_metrics_list>>
vars == <<config, main_list, mainpc, setup_i, jobs, job_queue, now, started,
          labels_dict, labels_list, gauges, counters, prom_metrics_list, threads,
          item_kwargs, born, running>>

----------------------------------------------------------------------------
(* Bounds of the model.                                                    *)

MaxThreads == 2   \* threads running run_ext_script in SpecRun
MaxRuns == 3      \* runs of run_ext_script, one after the other, in SpecSeq
MaxJobs == 2      \* job records of a configuration
MaxTime == 14     \* seconds the clock of Spec runs for
MaxLate == 3      \* seconds a sleep of the loop may overrun by, in SpecLate

----------------------------------------------------------------------------
(* Standard output of a command, as the text forms ast.literal_eval tells  *)
(* apart, and the Python values they evaluate to.                          *)

NumTok(n) == [t |-> "num", n |-> n]
WordTok == [t |-> "word"]
QuotedTok(c) == [t |-> "quoted", c |-> c]
ListTok == [t |-> "list"]
EmptyTok == [t |-> "empty"]
MapTok(items) == [t |-> "map", items |-> items]

PyNum(n) == [t |-> "num", n |-> n]
PyStr(c) == [t |-> "str", c |-> c]
PyList == [t |-> "list"]
PyNone == [t |-> "none"]
PyDict(items) == [t |-> "dict", items |-> items]

Raise(e) == [exc |-> e, val |-> PyNone]
Return(v) == [exc |-> "none", val |-> v]

\* ast.literal_eval on one literal that is not a mapping
EvalAtom(tok) ==
    CASE tok.t = "num" -> Return(PyNum(tok.n))
      [] tok.t = "quoted" -> Return(PyStr(tok.c))
      [] tok.t = "list" -> Return(PyList)
      [] tok.t = "word" -> Raise("ValueError")
      [] OTHER -> Raise("SyntaxError")

\* ast.literal_eval(output), line 100: a bare word is a malformed node
\* (ValueError), empty text does not parse (SyntaxError), every literal
\* evaluates to its value
LiteralEval(tok) ==
    IF tok.t # "map" THEN EvalAtom(tok)
    ELSE LET n == Len(tok.items)
             ev == [i \in 1..n |-> EvalAtom(tok.items[i].val)]
         IN IF \E i \in 1..n : ev[i].exc = "SyntaxError" THEN Raise("SyntaxError")
            ELSE IF \E i \in 1..n : ev[i].exc = "ValueError" THEN Raise("ValueError")
            ELSE Return(PyDict([i \in 1..n |->
                                  [key |-> tok.items[i].key, val |-> ev[i].val]]))

\* float(v), lines 147 and Gauge.set
PyFloat(v) ==
    CASE v.t = "num" -> [exc |-> "none", n |-> v.n]
      [] v.t = "str" -> IF v.c.t = "num" THEN [exc |-> "none", n |-> v.c.n]
                        ELSE [exc |-> "ValueError", n |-> 0]
      [] OTHER -> [exc |-> "TypeError", n |-> 0]

----------------------------------------------------------------------------
(* prometheus_client: families, labels(), set(), inc().                    *)

NewFamily(names) == [labelnames |-> names, series |-> <<>>]

\* MetricWrapperBase.labels(**labelkwargs): the keys must be the family's
\* label names; the child is created on first use, with value 0
LabelsOk(fam, kw) == DOMAIN kw = fam.labelnames

WithChild(fam, kw) ==
    IF kw \in DOMAIN fam.series THEN fam
    ELSE [fam EXCEPT !.series = [x \in DOMAIN fam.series \cup {kw} |->
                                    IF x = kw THEN 0 ELSE fam.series[x]]]

SetChild(fam, kw, n) ==
    [fam EXCEPT !.series = [x \in DOMAIN fam.series \cup {kw} |->
                               IF x = kw THEN n ELSE fam.series[x]]]

\* obj.labels(**kw).set(v): [exc, fam]
GaugeSet(fam, kw, v) ==
    IF ~LabelsOk(fam, kw) THEN [exc |-> "ValueError", fam |-> fam]
    ELSE LET f == PyFloat(v)
         IN IF f.exc = "none" THEN [exc |-> "none", fam |-> SetChild(fam, kw, f.n)]
            ELSE [exc |-> f.exc, fam |-> WithChild(fam, kw)]

\* counter.labels(**kw).inc(): [exc, fam]
CounterInc(fam, kw) ==
    IF ~LabelsOk(fam, kw) THEN [exc |-> "ValueError", fam |-> fam]
    ELSE [exc |-> "none",
          fam |-> SetChild(fam, kw, WithChild(fam, kw).series[kw] + 1)]

----------------------------------------------------------------------------
(* run_ext_script.  A step takes the shared state S (the item's labels     *)
(* dict, the registry, prom_metrics_list) and the thread's locals t, and   *)
(* returns both after the step: [s |-> S', t |-> t'].                      *)

Shared == [labels_dict |-> labels_dict, gauges |-> gauges, counters |-> counters,
           prom_metrics_list |-> prom_metrics_list]

IdleThread == [pc |-> "idle", j |-> 0, exit |-> 0, out |-> EmptyTok,
               val |-> PyNone, k |-> 0]

Metric(j) == main_list[j].metric

Extend(f, x, v) == [y \in DOMAIN f \cup {x} |-> IF y = x THEN v ELSE f[y]]

InList(list, name) == \E i \in 1..Len(list) : list[i] = name

\* lines 93 and 106: prometheus_metric_errors.labels(**labels_dict).inc(),
\* with the labels dict as it is at that moment
ErrorInc(S, t) ==
    LET r == CounterInc(S.counters[Metric(t.j)], S.labels_dict[t.j])
    IN [s |-> [S EXCEPT !.counters[Metric(t.j)] = r.fam],
        t |-> [t EXCEPT !.pc = IF r.exc = "none" THEN "done" ELSE "died"]]

\* lines 95-109 and 144-150: stdout of a command that exited 0 is evaluated
\* and the branch of the function is chosen
Classify(S, t1, out) ==
    LET e == LiteralEval(out)
        f == PyFloat(e.val)
    IN IF e.exc = "ValueError" THEN ErrorInc(S, t1)
       ELSE IF e.exc = "SyntaxError" THEN [s |-> S, t |-> [t1 EXCEPT !.pc = "died"]]
       ELSE IF e.val.t = "dict"
            THEN IF Len(e.val.items) = 0
                 THEN [s |-> S, t |-> [t1 EXCEPT !.pc = "done", !.val = e.val]]
                 ELSE [s |-> S, t |-> [t1 EXCEPT !.pc = "key", !.val = e.val, !.k = 1]]
       ELSE IF f.exc = "none"
            THEN [s |-> S, t |-> [t1 EXCEPT !.pc = "decl", !.val = PyNum(f.n)]]
       ELSE IF f.exc = "ValueError"
            THEN [s |-> S, t |-> [t1 EXCEPT !.pc = "done", !.val = e.val]]
       ELSE [s |-> S, t |-> [t1 EXCEPT !.pc = "died", !.val = e.val]]

\* the exit code is not looked at: stdout is evaluated after a failure too
CommandReturnsExitIgnored(S, t, exit, out) ==
    Classify(S, [t EXCEPT !.exit = exit, !.out = out], out)

\* lines 74-109 and 144-150: the command has returned exit code and stdout
CommandReturns(S, t, exit, out) ==
    LET t1 == [t EXCEPT !.exit = exit, !.out = out]
    IN IF exit # 0 THEN ErrorInc(S, t1) ELSE Classify(S, t1, out)

\* line 110: the next key of the loop, or the end of the function
AfterKey(t) ==
    IF t.val.t = "dict" /\ t.k < Len(t.val.items)
    THEN [t EXCEPT !.pc = "key", !.k = t.k + 1]
    ELSE [t EXCEPT !.pc = "done"]

\* line 112 left out: the key is never stored in the labels dict
SetComponentSkipped(S, t) == [s |-> S, t |-> [t EXCEPT !.pc = "decl"]]

\* line 112: labels_dict["component"] = key
SetComponent(S, t) ==
    [s |-> [S EXCEPT !.labels_dict[t.j] =
                        [@ EXCEPT !["component"] = t.val.items[t.k].key]],
     t |-> [t EXCEPT !.pc = "decl"]]

\* lines 116 and 154: Gauge(prom_metric_name, metric_help, labels_list)
\* registers the family, or raises ValueError when the name is registered
DeclareGauge(S, t) ==
    IF Metric(t.j) \in DOMAIN S.gauges
    THEN [s |-> S, t |-> [t EXCEPT !.pc = "scan"]]
    ELSE [s |-> [S EXCEPT !.gauges = Extend(@, Metric(t.j), NewFamily(labels_list[t.j]))],
          t |-> [t EXCEPT !.pc = IF t.val.t = "dict" THEN "mset" ELSE "sappend"]]

\* the value this step writes: output[key], or output
WriteValue(t) == IF t.val.t = "dict" THEN t.val.items[t.k].val ELSE t.val

\* lines 120-129 and 158-167: look the family up in prom_metrics_list and set
\* the value; ValueError is logged, nothing happens when the list lacks it
ScanWrite(S, t) ==
    LET m == Metric(t.j)
        r == GaugeSet(S.gauges[m], S.labels_dict[t.j], WriteValue(t))
    IN IF ~InList(S.prom_metrics_list, m) THEN [s |-> S, t |-> AfterKey(t)]
       ELSE [s |-> [S EXCEPT !.gauges[m] = r.fam],
             t |-> IF r.exc = "TypeError" THEN [t EXCEPT !.pc = "died"]
                   ELSE AfterKey(t)]

\* lines 133-140: the first write to a family this run created (mapping output)
MapFirstSet(S, t) ==
    LET m == Metric(t.j)
        r == GaugeSet(S.gauges[m], S.labels_dict[t.j], WriteValue(t))
    IN [s |-> [S EXCEPT !.gauges[m] = r.fam],
        t |-> IF r.exc = "none" THEN [t EXCEPT !.pc = "mappend"]
              ELSE IF r.exc = "ValueError" THEN AfterKey(t)
              ELSE [t EXCEPT !.pc = "died"]]

\* line 142: prom_metrics_list.append(prom_metric_obj)
MapAppend(S, t) ==
    [s |-> [S EXCEPT !.prom_metrics_list = Append(@, Metric(t.j))],
     t |-> AfterKey(t)]

\* line 171: prom_metrics_list.append(prom_metric_obj)
ScalarAppend(S, t) ==
    [s |-> [S EXCEPT !.prom_metrics_list = Append(@, Metric(t.j))],
     t |-> [t EXCEPT !.pc = "sset"]]

\* line 172: prom_metric_obj.labels(**labels_dict).set(output), outside any try
ScalarSet(S, t) ==
    LET m == Metric(t.j)
        r == GaugeSet(S.gauges[m], S.labels_dict[t.j], WriteValue(t))
    IN [s |-> [S EXCEPT !.gauges[m] = r.fam],
        t |-> [t EXCEPT !.pc = IF r.exc = "none" THEN "done" ELSE "died"]]

\* one step of a thread past the return of its command
Step(S, t) ==
    CASE t.pc = "key" -> SetComponent(S, t)
      [] t.pc = "decl" -> DeclareGauge(S, t)
      [] t.pc = "scan" -> ScanWrite(S, t)
      [] t.pc = "mset" -> MapFirstSet(S, t)
      [] t.pc = "mappend" -> MapAppend(S, t)
      [] t.pc = "sappend" -> ScalarAppend(S, t)
      [] t.pc = "sset" -> ScalarSet(S, t)

Ended(t) == t.pc \in {"done", "died"}

RECURSIVE RunToEnd(_, _)
RunToEnd(S, t) ==
    IF Ended(t) THEN [s |-> S, t |-> t] ELSE RunToEnd(Step(S, t).s, Step(S, t).t)

\* a whole run of run_ext_script for item j, executed with no other thread
\* running in between
SerialRun(S, j, exit, out) ==
    LET r == CommandReturns(S, [IdleThread EXCEPT !.pc = "cmd", !.j = j], exit, out)
    IN RunToEnd(r.s, r.t)

----------------------------------------------------------------------------
(* The inputs: what a command can exit with and print.                     *)

Keys == {"a", "b"}
Values == {1, 2}
ExitCodes == {0, 1}

\* the values of a mapping: numbers, and a quoted word
MapVals == {NumTok(n) : n \in Values} \cup {QuotedTok(WordTok)}

MapItems == {[key |-> k, val |-> v] : k \in Keys, v \in MapVals}

DistinctKeys(items) ==
    \A a, b \in 1..Len(items) : a # b => items[a].key # items[b].key

Maps == {MapTok(s) : s \in {x \in UNION {[1..n -> MapItems] :
                                             n \in 0..Cardinality(Keys)} :
                               DistinctKeys(x)}}

Outputs == {NumTok(n) : n \in Values}
           \cup {WordTok, QuotedTok(WordTok), QuotedTok(NumTok(1)), ListTok, EmptyTok}
           \cup Maps

----------------------------------------------------------------------------
(* The worker threads.                                                     *)

Threads == 1..MaxThreads

\* the locals of a thread are gone when run_ext_script ends; the exit code
\* and the output of its command are kept as the record of the run
Settle(t) == IF Ended(t) THEN [t EXCEPT !.val = PyNone, !.k = 0] ELSE t

Apply(tid, r) ==
    /\ labels_dict' = r.s.labels_dict
    /\ gauges' = r.s.gauges
    /\ counters' = r.s.counters
    /\ prom_metrics_list' = r.s.prom_metrics_list
    /\ threads' = [threads EXCEPT ![tid] = Settle(r.t)]
    /\ UNCHANGED labels_list

ThreadStep(tid, r) == Apply(tid, r) /\ UNCHANGED mainvars

\* lines 71-74: a thread enters run_ext_script and starts the command
StartRun(tid) ==
    /\ threads[tid].pc = "idle"
    /\ \A u \in Threads : u < tid => threads[u].pc # "idle"
    /\ \E j \in 1..Len(main_list) :
          threads' = [threads EXCEPT ![tid] = [IdleThread EXCEPT !.pc = "cmd", !.j = j]]
    /\ UNCHANGED <<mainvars, regvars>>

\* lines 74-93: the command exits non-zero
CommandFails(tid) ==
    /\ threads[tid].pc = "cmd"
    /\ \E exit \in ExitCodes \ {0} : \E out \in Outputs :
          ThreadStep(tid, CommandReturns(Shared, threads[tid], exit, out))

\* lines 74-109, 144-150: the command exits 0 and its output is classified
CommandSucceeds(tid) ==
    /\ threads[tid].pc = "cmd"
    /\ \E out \in Outputs : ThreadStep(tid, CommandReturns(Shared, threads[tid], 0, out))

DoSetComponent(tid) ==
    threads[tid].pc = "key" /\ ThreadStep(tid, SetComponent(Shared, threads[tid]))

DoDeclareGauge(tid) ==
    threads[tid].pc = "decl" /\ ThreadStep(tid, DeclareGauge(Shared, threads[tid]))

DoScanWrite(tid) ==
    threads[tid].pc = "scan" /\ ThreadStep(tid, ScanWrite(Shared, threads[tid]))

DoMapFirstSet(tid) ==
    threads[tid].pc = "mset" /\ ThreadStep(tid, MapFirstSet(Shared, threads[tid]))

DoMapAppend(tid) ==
    threads[tid].pc = "mappend" /\ ThreadStep(tid, MapAppend(Shared, threads[tid]))

DoScalarAppend(tid) ==
    threads[tid].pc = "sappend" /\ ThreadStep(tid, ScalarAppend(Shared, threads[tid]))

DoScalarSet(tid) ==
    threads[tid].pc = "sset" /\ ThreadStep(tid, ScalarSet(Shared, threads[tid]))

\* the state main() leaves after it has set up one job
RunLabels == [env |-> "prod", component |-> "main"]

InitRun ==
    /\ config = [global_labels |-> <<>>, scripts |-> <<>>]
    /\ main_list = <<[metric |-> "m1", script |-> "s1", interval |-> 1]>>
    /\ mainpc = "run_pending"
    /\ setup_i = 2
    /\ jobs = <<[item |-> 1, interval |-> 1, next_run |-> 1]>>
    /\ job_queue = <<>>
    /\ now = 0
    /\ started = <<0>>
    /\ item_kwargs = 0
    /\ born = <<0>>
    /\ running = <<0>>
    /\ labels_dict = <<RunLabels>>
    /\ labels_list = <<DOMAIN RunLabels>>
    /\ gauges = <<>>
    /\ counters = [m \in {"m1"} |-> NewFamily(DOMAIN RunLabels)]
    /\ prom_metrics_list = <<>>
    /\ threads = [tid \in Threads |-> IdleThread]

NextRun ==
    \E tid \in Threads :
        \/ StartRun(tid)
        \/ CommandFails(tid)
        \/ CommandSucceeds(tid)
        \/ DoSetComponent(tid)
        \/ DoDeclareGauge(tid)
        \/ DoScanWrite(tid)
        \/ DoMapFirstSet(tid)
        \/ DoMapAppend(tid)
        \/ DoScalarAppend(tid)
        \/ DoScalarSet(tid)

SpecRun == InitRun /\ [][NextRun]_vars

\* run_ext_script from its first line to its last with no other thread in
\* between; threads[1] keeps the record of the run
RunJob(exit, out) ==
    /\ started[1] < MaxRuns
    /\ Apply(1, SerialRun(Shared, 1, exit, out))
    /\ started' = [started EXCEPT ![1] = @ + 1]
    /\ UNCHANGED <<config, main_list, mainpc, setup_i, jobs, job_queue, now, workvars>>

\* a run whose command exits non-zero
RunFails == \E exit \in ExitCodes \ {0} : \E out \in Outputs : RunJob(exit, out)

\* a run whose command exits 0
RunSucceeds == \E out \in Outputs : RunJob(0, out)

NextSeq == RunFails \/ RunSucceeds

SpecSeq == InitRun /\ [][NextSeq]_vars

----------------------------------------------------------------------------
(* parse_config_file and generate_params_dict.  A job record is a JSON     *)
(* object: a function whose domain holds the keys that are present.        *)

DEFAULT_INTERVAL == 600

Has(rec, key) == key \in DOMAIN rec

\* dict.get(key, default)
Get(rec, key, default) == IF Has(rec, key) THEN rec[key] ELSE default

\* labels = global_labels.copy(); labels.update(local_labels), lines 226-229
MergeLabels(global, local) ==
    [k \in DOMAIN global \cup DOMAIN local |->
        IF k \in DOMAIN local THEN local[k] ELSE global[k]]

\* the label keyed component is left as the configuration has it
RenameComponentSkipped(labels) == labels

\* lines 235-238: labels["user_defined_component"] = labels.pop("component")
RenameComponent(labels) ==
    IF "component" \in DOMAIN labels
    THEN [k \in (DOMAIN labels \ {"component"}) \cup {"user_defined_component"} |->
             IF k = "user_defined_component" THEN labels["component"] ELSE labels[k]]
    ELSE labels

\* lines 225-244, for one record: the labels the item carries after the load
LoadedLabels(global, script) ==
    RenameComponent(MergeLabels(global, Get(script, "labels", <<>>)))

\* the item without its labels, which are kept in labels_dict
ItemOf(script) == [k \in DOMAIN script \ {"labels"} |-> script[k]]

Crashed == mainpc \in {"KeyError", "UnboundLocalError"}

\* lines 303-309: main_list = parse_config_folder(configs_list)
ParseConfig ==
    /\ mainpc = "parse"
    /\ main_list' = [i \in 1..Len(config.scripts) |-> ItemOf(config.scripts[i])]
    /\ labels_dict' = [i \in 1..Len(config.scripts) |->
                          LoadedLabels(config.global_labels, config.scripts[i])]
    /\ labels_list' = [i \in 1..Len(config.scripts) |-> {}]
    /\ started' = [i \in 1..Len(config.scripts) |-> 0]
    /\ born' = [i \in 1..Len(config.scripts) |-> 0]
    /\ running' = [i \in 1..Len(config.scripts) |-> 0]
    /\ setup_i' = 1
    /\ mainpc' = IF Len(config.scripts) = 0 THEN "run_pending" ELSE "setup"
    /\ UNCHANGED <<config, jobs, job_queue, now, gauges, counters,
                   prom_metrics_list, threads, item_kwargs>>

\* lines 251-259: item["metric"] and item["script"] raise KeyError when absent
MissingField(item) == ~Has(item, "metric") \/ ~Has(item, "script")

\* lines 274-285: Counter(...) raises ValueError when the name is registered,
\* the except passes, and line 285 reads the unbound prometheus_metric_errors
CounterTaken(item) == item.metric \in DOMAIN counters

\* lines 311-324: one iteration of the for loop of main(), with the call of
\* generate_params_dict (247-289) and of schedule.every(...).seconds.do(...)
SetupItem ==
    /\ mainpc = "setup"
    /\ LET item == main_list[setup_i]
           withmain == Extend(labels_dict[setup_i], "component", "main")
           interval == Get(item, "interval", DEFAULT_INTERVAL)
       IN IF MissingField(item)
          THEN /\ mainpc' = "KeyError"
               /\ UNCHANGED <<labels_dict, labels_list, counters, jobs, setup_i>>
          ELSE /\ labels_dict' = [labels_dict EXCEPT ![setup_i] = withmain]
               /\ IF CounterTaken(item)
                  THEN /\ mainpc' = "UnboundLocalError"
                       /\ UNCHANGED <<labels_list, counters, jobs, setup_i>>
                  ELSE /\ labels_list' = [labels_list EXCEPT ![setup_i] = DOMAIN withmain]
                       /\ counters' = Extend(counters, item.metric,
                                             NewFamily(DOMAIN withmain))
                       /\ jobs' = Append(jobs, [item |-> setup_i, interval |-> interval,
                                                next_run |-> now + interval])
                       /\ setup_i' = setup_i + 1
                       /\ mainpc' = IF setup_i = Len(main_list)
                                    THEN "run_pending" ELSE "setup"
    /\ UNCHANGED <<config, main_list, job_queue, now, started, gauges,
                   prom_metrics_list, threads, workvars>>

----------------------------------------------------------------------------
(* The scheduling loop of main(), lines 327-352.                           *)

\* Job.should_run: datetime.now() >= self.next_run
ShouldRun(job) == now >= job.next_run

\* the runnable jobs are taken in the order of registration
BeforeAsDeclared(a, b) == a < b

\* sorted(runnable_jobs): by next_run, jobs of equal next_run in the order
\* of registration
Before(a, b) ==
    \/ jobs[a].next_run < jobs[b].next_run
    \/ jobs[a].next_run = jobs[b].next_run /\ a < b

RECURSIVE SortedJobs(_)
SortedJobs(set) ==
    IF set = {} THEN <<>>
    ELSE LET first == CHOOSE a \in set : \A b \in set \ {a} : Before(a, b)
         IN <<first>> \o SortedJobs(set \ {first})

Runnable == {a \in 1..Len(jobs) : ShouldRun(jobs[a])}

\* the next run is counted from the time the job was due at
ScheduleNextRunFromDue(job) == [job EXCEPT !.next_run = job.next_run + job.interval]

\* Job.run, after the job function: self.next_run = datetime.now() + period
ScheduleNextRun(job) == [job EXCEPT !.next_run = now + job.interval]

\* line 329: schedule.run_pending() runs job_queue.put(item_list) for every
\* runnable job and sets its next_run to now + interval
RunPending ==
    /\ mainpc = "run_pending"
    /\ LET order == SortedJobs(Runnable)
       IN /\ job_queue' = job_queue \o [i \in 1..Len(order) |-> jobs[order[i]].item]
          /\ jobs' = [a \in 1..Len(jobs) |->
                         IF a \in Runnable
                         THEN ScheduleNextRun(jobs[a])
                         ELSE jobs[a]]
    /\ mainpc' = "get"
    /\ UNCHANGED <<config, main_list, setup_i, now, started, regvars, threads,
                   workvars>>

\* lines 332-336: the queue is empty, time.sleep(1)
GetEmpty ==
    /\ mainpc = "get"
    /\ job_queue = <<>>
    /\ now < MaxTime
    /\ now' = now + 1
    /\ mainpc' = "sleep"
    /\ UNCHANGED <<config, main_list, setup_i, jobs, job_queue, started, regvars,
                   threads, workvars>>

\* the loop takes the next item only when the threads it started have ended
GetItemJoins ==
    /\ mainpc = "get"
    /\ job_queue # <<>>
    /\ \A i \in 1..Len(main_list) : born[i] = 0 /\ running[i] = 0
    /\ job_queue' = Tail(job_queue)
    /\ started' = [started EXCEPT ![Head(job_queue)] = @ + 1]
    /\ item_kwargs' = Head(job_queue)
    /\ born' = [born EXCEPT ![Head(job_queue)] = @ + 1]
    /\ mainpc' = "sleep"
    /\ UNCHANGED <<config, main_list, setup_i, jobs, now, regvars, threads, running>>

\* lines 332, 338-351: one item is taken from the queue, item_kwargs is
\* bound to its params and a thread with target job_func is started; start()
\* returns when the thread exists, not when it has called item_func
GetItem ==
    /\ mainpc = "get"
    /\ job_queue # <<>>
    /\ job_queue' = Tail(job_queue)
    /\ started' = [started EXCEPT ![Head(job_queue)] = @ + 1]
    /\ item_kwargs' = Head(job_queue)
    /\ born' = [born EXCEPT ![Head(job_queue)] = @ + 1]
    /\ mainpc' = "sleep"
    /\ UNCHANGED <<config, main_list, setup_i, jobs, now, regvars, threads, running>>

\* line 352: time.sleep(1)
Sleep ==
    /\ mainpc = "sleep"
    /\ now < MaxTime
    /\ now' = now + 1
    /\ mainpc' = "run_pending"
    /\ UNCHANGED <<config, main_list, setup_i, jobs, job_queue, started, regvars,
                   threads, workvars>>

\* line 352: time.sleep(1) returns late, the process having been kept off
\* the processor for up to MaxLate more seconds
LateSleep ==
    /\ mainpc = "sleep"
    /\ \E late \in 1..MaxLate :
          /\ now + 1 + late <= MaxTime
          /\ now' = now + 1 + late
    /\ mainpc' = "run_pending"
    /\ UNCHANGED <<config, main_list, setup_i, jobs, job_queue, started, regvars,
                   threads, workvars>>

----------------------------------------------------------------------------
(* The configurations main() is started with.                              *)

MetricNames == {"m1", "m2"}

JobRecords ==
    {[script |-> "s", metric |-> m, interval |-> i] : m \in MetricNames, i \in {1, 2}}
    \cup {[script |-> "s", metric |-> m, interval |-> 1, labels |-> l] :
             m \in MetricNames, l \in {[component |-> "db"], [env |-> "dev"]}}
    \cup {[script |-> "s", metric |-> "m1"],
          [metric |-> "m1", interval |-> 1],
          [script |-> "s", interval |-> 1]}

GlobalLabels == {<<>>, [env |-> "prod"], [component |-> "web"]}

Configs ==
    {[global_labels |-> g, scripts |-> s] :
        g \in GlobalLabels, s \in UNION {[1..n -> JobRecords] : n \in 0..MaxJobs}}

Init ==
    /\ config \in Configs
    /\ main_list = <<>>
    /\ mainpc = "parse"
    /\ setup_i = 1
    /\ jobs = <<>>
    /\ job_queue = <<>>
    /\ now = 0
    /\ started = <<>>
    /\ item_kwargs = 0
    /\ born = <<>>
    /\ running = <<>>
    /\ labels_dict = <<>>
    /\ labels_list = <<>>
    /\ gauges = <<>>
    /\ counters = <<>>
    /\ prom_metrics_list = <<>>
    /\ threads = [tid \in Threads |-> IdleThread]

Next ==
    \/ ParseConfig
    \/ SetupItem
    \/ RunPending
    \/ GetEmpty
    \/ GetItem
    \/ Sleep

Spec == Init /\ [][Next]_vars

\* line 346, in a worker thread: job_func calls item_func with item_kwargs,
\* reading the variable of main() as it is bound at that moment
WorkerEnters(i) ==
    /\ born[i] > 0
    /\ born' = [born EXCEPT ![i] = @ - 1]
    /\ running' = [running EXCEPT ![item_kwargs] = @ + 1]
    /\ UNCHANGED <<config, main_list, mainpc, setup_i, jobs, job_queue, now, started,
                   item_kwargs, regvars, threads>>

\* line 346, in a worker thread: item_func returns and the thread ends; a
\* thread whose command never returns never takes this step
WorkerReturns(i) ==
    /\ running[i] > 0
    /\ running' = [running EXCEPT ![i] = @ - 1]
    /\ UNCHANGED <<config, main_list, mainpc, setup_i, jobs, job_queue, now, started,
                   item_kwargs, born, regvars, threads>>

\* configurations without labels
LoopConfigs ==
    {c \in Configs :
        /\ c.global_labels = <<>>
        /\ \A i \in 1..Len(c.scripts) : ~Has(c.scripts[i], "labels")}

InitLoop == Init /\ config \in LoopConfigs

\* main() and the worker threads it starts
NextLoop ==
    \/ Next
    \/ \E i \in 1..Len(main_list) : WorkerEnters(i) \/ WorkerReturns(i)

SpecLoop == InitLoop /\ [][NextLoop]_vars

\* main() on a machine where the sleeps of the loop may return late
NextLate == Next \/ LateSleep

SpecLate == Init /\ [][NextLate]_vars

----------------------------------------------------------------------------
(* Notions the properties below are stated in.                             *)

\* the job's base labels with component = c
WithComponent(j, c) == [labels_dict[j] EXCEPT !["component"] = c]

RECURSIVE SumOver(_, _)
SumOver(f, D) ==
    IF D = {} THEN 0
    ELSE LET x == CHOOSE y \in D : TRUE IN f[x] + SumOver(f, D \ {x})

\* the sum of all series of a family
Total(fam) == SumOver(fam.series, DOMAIN fam.series)

\* the series of the gauge family named m, none when it is not registered
SeriesOf(g, m) == IF m \in DOMAIN g THEN g[m].series ELSE <<>>

\* no other thread is inside run_ext_script
Alone(tid) == \A u \in Threads \ {tid} : threads[u].pc = "idle" \/ Ended(threads[u])

\* the output of a run is a mapping of keys to numbers
NumericMap(out) ==
    out.t = "map" /\ \A i \in 1..Len(out.items) : out.items[i].val.t = "num"

Unsupported(out) == out.t \in {"word", "quoted", "list", "empty"}

InitShared ==
    [labels_dict |-> <<RunLabels>>, gauges |-> <<>>,
     counters |-> [m \in {"m1"} |-> NewFamily(DOMAIN RunLabels)],
     prom_metrics_list |-> <<>>]

RunOf(S, t) == SerialRun(S, t.j, t.exit, t.out).s

\* in SpecSeq: this step is a run of the job, and these are its exit code
\* and its output
Ran == started'[1] = started[1] + 1
LastExit == threads'[1].exit
LastOut == threads'[1].out

----------------------------------------------------------------------------
(* Properties of run_ext_script in concurrent threads (SpecRun).           *)

(* C1.  Two runs of the same job, overlapping or not, leave the gauge and  *)
(* the error counter of the job as the two runs executed one after the     *)
(* other, in one of the two orders, leave them.                            *)
C1_TwoRunsSerializable ==
    (/\ Ended(threads[1]) /\ Ended(threads[2])
     /\ \A u \in Threads \ {1, 2} : threads[u].pc = "idle")
    => \E a, b \in {1, 2} :
          /\ a # b
          /\ LET S == RunOf(RunOf(InitShared, threads[a]), threads[b])
             IN gauges = S.gauges /\ counters = S.counters

(* C10.  After any earlier runs have ended, a declaration under a name     *)
(* that is registered creates no family and leaves the label names of the  *)
(* registered one as they are; with the same label names the value is      *)
(* written to the registered family, with other label names nothing        *)
(* changes.                                                                *)
C10_DeclareYieldsExisting ==
    [][\A tid \in Threads :
          (Alone(tid) /\ threads[tid].pc = "scan" /\ threads'[tid].pc # "scan")
          => LET m == Metric(threads[tid].j)
                 kw == labels_dict[threads[tid].j]
                 f == PyFloat(WriteValue(threads[tid]))
             IN /\ DOMAIN gauges' = DOMAIN gauges
                /\ gauges'[m].labelnames = gauges[m].labelnames
                /\ (LabelsOk(gauges[m], kw) /\ f.exc = "none")
                      => /\ kw \in DOMAIN gauges'[m].series
                         /\ gauges'[m].series[kw] = f.n
                /\ ~LabelsOk(gauges[m], kw) => gauges' = gauges]_vars

(* C18.  Whenever a run has found the name of its gauge registered and is  *)
(* about to look the family up, the family is in prom_metrics_list.        *)
C18_LookupFindsFamily ==
    \A tid \in Threads :
       threads[tid].pc = "scan"
       => InList(prom_metrics_list, Metric(threads[tid].j))

----------------------------------------------------------------------------
(* Properties of one run of run_ext_script after the runs before it have   *)
(* ended (SpecSeq).                                                        *)

(* C2.  A run whose command exits non-zero, whatever runs came before it,  *)
(* adds exactly 1 to the series (base labels, component = "main") of the   *)
(* job's error counter and changes no other series of it.                  *)
C2_FailureCountsOnMain ==
    [][(Ran /\ LastExit # 0)
       => counters' = [counters EXCEPT !["m1"] =
                          CounterInc(@, WithComponent(1, "main")).fam]]_vars

(* C3.  A run whose command exits 0 with a bare word, a quoted string, a   *)
(* list or nothing on stdout adds exactly 1 to the job's error counter,    *)
(* returns, and changes nothing else.                                      *)
C3_UnsupportedCountsOnce ==
    [][(Ran /\ LastExit = 0 /\ Unsupported(LastOut))
       => /\ Total(counters'["m1"]) = Total(counters["m1"]) + 1
          /\ threads'[1].pc = "done"
          /\ gauges' = gauges
          /\ prom_metrics_list' = prom_metrics_list
          /\ labels_dict' = labels_dict]_vars

\* the series a mapping output asks for: (base labels, component = key) -> value
SeriesAsked(items) ==
    [kw \in {WithComponent(1, items[i].key) : i \in 1..Len(items)} |->
        LET i == CHOOSE x \in 1..Len(items) : WithComponent(1, items[x].key) = kw
        IN items[i].val.n]

(* C7.  A run that exits 0 with a mapping of n keys to numbers, started    *)
(* when the metric has no series, leaves for the metric exactly the n      *)
(* series (base labels, component = key), each with the key's value.       *)
C7_MappingLeavesItsSeries ==
    [][(/\ Ran /\ LastExit = 0 /\ NumericMap(LastOut)
        /\ SeriesOf(gauges, "m1") = <<>>)
       => SeriesOf(gauges', "m1") = SeriesAsked(LastOut.items)]_vars

\* the first gauge write of the process is a mapping of two keys, made after
\* a failed run, and both series are there
C7_Witness ==
    /\ started[1] = 2
    /\ threads[1].pc = "done" /\ threads[1].exit = 0
    /\ NumericMap(threads[1].out) /\ Len(threads[1].out.items) = 2
    /\ Total(counters["m1"]) = 1
    /\ Cardinality(DOMAIN SeriesOf(gauges, "m1")) = 2

(* C8.  A run that exits 0 with a single number v, whatever runs came      *)
(* before it, sets the series (base labels, component = "main") of the     *)
(* job's gauge to v and changes no other series.                           *)
C8_ScalarWritesMain ==
    [][(Ran /\ LastExit = 0 /\ LastOut.t = "num")
       => SeriesOf(gauges', "m1")
             = Extend(SeriesOf(gauges, "m1"), WithComponent(1, "main"), LastOut.n)]_vars

(* C9.  A run with a mapping output has written, when it returns, every    *)
(* key of the map whose value is a number, also when the write of another  *)
(* key of the map was rejected.                                            *)
C9_BadKeyDoesNotStopOthers ==
    [][(Ran /\ LastExit = 0 /\ LastOut.t = "map")
       => \A i \in 1..Len(LastOut.items) :
             LastOut.items[i].val.t = "num"
             => LET kw == WithComponent(1, LastOut.items[i].key)
                IN /\ kw \in DOMAIN SeriesOf(gauges', "m1")
                   /\ SeriesOf(gauges', "m1")[kw] = LastOut.items[i].val.n]_vars

(* C11.  A run that exits 0 with an output that is neither a number nor a  *)
(* mapping - a bare word, a quoted string (of letters or of digits), a     *)
(* list, nothing - declares no gauge family and leaves every gauge series  *)
(* as it was.                                                              *)
C11_UnsupportedLeavesGauges ==
    [][(Ran /\ LastExit = 0 /\ Unsupported(LastOut)) => gauges' = gauges]_vars

(* C12.  A run whose command exits non-zero declares no gauge family and   *)
(* changes no gauge series, whatever the command printed.                  *)
C12_FailureLeavesGauges ==
    [][(Ran /\ LastExit # 0)
       => gauges' = gauges /\ prom_metrics_list' = prom_metrics_list]_vars

\* a run has failed with a number on its stdout, other than the one an
\* earlier run wrote, and the series still holds the earlier number
C12_Witness ==
    /\ threads[1].pc = "done" /\ threads[1].exit # 0
    /\ threads[1].out = NumTok(2)
    /\ WithComponent(1, "main") \in DOMAIN SeriesOf(gauges, "m1")
    /\ SeriesOf(gauges, "m1")[WithComponent(1, "main")] = 1

----------------------------------------------------------------------------
(* Properties of main().                                                   *)

Complete(script) == Has(script, "metric") /\ Has(script, "script")

InLoop == mainpc \in {"run_pending", "get", "sleep"}

(* C4.  After every pass of the loop, the number of threads started for a  *)
(* job of interval I in the now seconds the process has run is now \div I, *)
(* give or take one.                                                       *)
C4_DispatchRate ==
    (mainpc = "sleep")
    => \A a \in 1..Len(jobs) :
          LET due == now \div jobs[a].interval
              n == started[jobs[a].item]
          IN n - due <= 1 /\ due - n <= 1

(* C5.  With a configuration whose records all have their required        *)
(* fields, main() is never halted: it sets every job up and stays in its   *)
(* loop.                                                                   *)
C5_MainNeverHalts ==
    (\A i \in 1..Len(config.scripts) : Complete(config.scripts[i])) => ~Crashed

(* C6.  A record without script or metric does not halt main(), and when   *)
(* the loop is entered every record that has both is scheduled.            *)
C6_IncompleteRecordSkipped ==
    /\ mainpc # "KeyError"
    /\ InLoop => {jobs[a].item : a \in 1..Len(jobs)}
                    = {i \in 1..Len(config.scripts) : Complete(config.scripts[i])}

\* what line 227-229 make of the labels of record i, before the rename
Merged(i) ==
    MergeLabels(config.global_labels, Get(config.scripts[i], "labels", <<>>))

(* C13.  Nothing is enqueued and no thread is started before the          *)
(* configuration is loaded, and from the load on every job whose merged    *)
(* labels had the key component carries user_defined_component with that   *)
(* value, and carries under component nothing but the value "main" that    *)
(* the setup of the job puts there.                                        *)
C13_ComponentRenamed ==
    /\ mainpc = "parse" => job_queue = <<>> /\ started = <<>>
    /\ mainpc # "parse"
       => \A i \in 1..Len(config.scripts) :
             Has(Merged(i), "component")
             => /\ Has(labels_dict[i], "user_defined_component")
                /\ labels_dict[i]["user_defined_component"] = Merged(i)["component"]
                /\ Has(labels_dict[i], "component")
                   => labels_dict[i]["component"] = "main"

\* a thread has been started for a job whose own component label overrode
\* the global one, and another job waits in the queue
C13_Witness ==
    /\ Len(config.scripts) = 2 /\ InLoop
    /\ Has(config.global_labels, "component")
    /\ Has(config.scripts[1], "labels") /\ Has(config.scripts[1].labels, "component")
    /\ config.scripts[1].labels["component"] # config.global_labels["component"]
    /\ labels_dict[1]["user_defined_component"] = config.scripts[1].labels["component"]
    /\ labels_dict[2]["user_defined_component"] = config.global_labels["component"]
    /\ started[1] = 1 /\ job_queue = <<2>>

(* C14.  When the loop has taken its item from the queue and goes to      *)
(* sleep, the queue is empty: every item the pass enqueued was dispatched. *)
C14_QueueDrained == (mainpc = "sleep") => job_queue = <<>>

\* the items one call of schedule.run_pending() puts on the queue, in order
Enqueued == SubSeq(job_queue', Len(job_queue) + 1, Len(job_queue'))

\* the job schedule holds for item i
JobOf(i) == jobs[CHOOSE a \in 1..Len(jobs) : jobs[a].item = i]

(* C17 as stated.  The jobs one pass of the scheduler enqueues are put on  *)
(* the queue in the order of their declaration in the configuration.       *)
C17_DeclarationOrder ==
    [][(mainpc = "run_pending")
       => \A p, q \in 1..Len(Enqueued) : p < q => Enqueued[p] < Enqueued[q]]_vars

(* C17, amended.  The jobs one pass of the scheduler enqueues are put on   *)
(* the queue in the order of the times they were due at, earliest first,   *)
(* and jobs due at the same time in the order of their declaration.        *)
C17_DueTimeOrder ==
    [][(mainpc = "run_pending")
       => \A p, q \in 1..Len(Enqueued) :
             p < q => \/ JobOf(Enqueued[p]).next_run < JobOf(Enqueued[q]).next_run
                      \/ /\ JobOf(Enqueued[p]).next_run = JobOf(Enqueued[q]).next_run
                         /\ Enqueued[p] < Enqueued[q]]_vars

\* one pass has found the first job (interval 2) and the second job
\* (interval 1) due and has enqueued the second before the first
C17_Witness ==
    /\ mainpc = "get" /\ Len(jobs) = 2
    /\ jobs[1].interval = 2 /\ jobs[2].interval = 1
    /\ jobs[1].next_run = now + 2 /\ jobs[2].next_run = now + 1
    /\ job_queue = <<2, 1>>

(* C20.  The queue never holds more than one entry of the same job.        *)
C20_OnePendingPerJob ==
    \A i \in 1..Len(main_list) :
       Cardinality({p \in 1..Len(job_queue) : job_queue[p] = i}) <= 1

\* the number of entries of item i in a sequence of items
Count(q, i) == Cardinality({p \in 1..Len(q) : q[p] = i})

(* C15.  One call of schedule.run_pending() enqueues a job at most once,   *)
(* and only when it is due, however long ago it became due; the job is     *)
(* then due again one full interval after this call, not before.  No       *)
(* other step of the loop changes the time a job is due at.                *)
C15_OncePerPass ==
    [][IF mainpc = "run_pending"
       THEN \A a \in 1..Len(jobs) :
               LET n == Count(Enqueued, jobs[a].item)
               IN /\ n = (IF now >= jobs[a].next_run THEN 1 ELSE 0)
                  /\ n = 1 => jobs'[a].next_run = now + jobs[a].interval
                  /\ n = 0 => jobs'[a] = jobs[a]
       ELSE InLoop => jobs' = jobs]_vars

\* a job of interval 1 is enqueued for the second time only, by a pass
\* that runs 3 seconds after the job became due, and is due next a second
\* after that pass
C15_Witness ==
    /\ Len(jobs) = 1 /\ jobs[1].interval = 1
    /\ mainpc = "get" /\ now = 6
    /\ started[1] = 1 /\ job_queue = <<1>>
    /\ jobs[1].next_run = 7

----------------------------------------------------------------------------
(* Properties of main() and its worker threads (SpecLoop).                 *)

(* C19.  A worker thread calls run_ext_script with the params of the item  *)
(* that was dequeued in the loop iteration that started the thread.        *)
C19_ThreadRunsItsItem ==
    [][\A i \in 1..Len(born) :
          (Len(born') = Len(born) /\ born'[i] < born[i])
          => running' = [running EXCEPT ![i] = @ + 1]]_vars

\* a step of the main thread in its loop
MainStep == RunPending \/ GetEmpty \/ GetItem \/ Sleep

(* C16.  While threads are inside run_ext_script, waiting for commands     *)
(* that may never return, the main thread can take the next step of its    *)
(* loop, whichever it is: the scheduler pass, the dequeue and the start    *)
(* of a thread for another job or for the same job again, the sleep.       *)
C16_HungThreadBlocksNothing ==
    (\E i \in 1..Len(running) : running[i] > 0)
    => /\ mainpc = "run_pending" => ENABLED RunPending
       /\ (mainpc = "get" /\ job_queue # <<>>) => ENABLED GetItem
       /\ (mainpc = "get" /\ job_queue = <<>> /\ now < MaxTime) => ENABLED GetEmpty
       /\ (mainpc = "sleep" /\ now < MaxTime) => ENABLED Sleep

\* a thread of the first job has been inside run_ext_script since the loop
\* started it at second 2, and the loop has since started, one per second,
\* a thread for the second job and another for the first; these have ended
C16_Witness ==
    /\ Len(jobs) = 2 /\ now = 4 /\ mainpc = "sleep"
    /\ started = <<2, 1>>
    /\ born = <<0, 0>> /\ running = <<1, 0>>

====
